---- MODULE Spec2Model ----
(***************************************************************************)
(* Model of odoo_connect.odoo_rpc: the OdooModel nested "dictionary view"  *)
(* reads (field-path normalizer, field metadata cache, relation expander,  *)
(* record-set accessors).                                                  *)
(*                                                                         *)
(* Python values are tagged records so that values of different Python     *)
(* types can be compared: k is the type tag, the payload field is named    *)
(* after the type.                                                         *)
(*   False       [k |-> "false"]  (and None where the code only tests      *)
(*                                 truthiness)                             *)
(*   None        [k |-> "none"]   (where the code tests `is not None`)     *)
(*   True        [k |-> "true"]                                            *)
(*   int n       [k |-> "int",  n |-> n]                                   *)
(*   str         [k |-> "str",  s |-> <<token, ...>>]                      *)
(*   list        [k |-> "list", l |-> <<value, ...>>]                      *)
(*   set         [k |-> "set",  e |-> {value, ...}]                        *)
(*   dict        [k |-> "dict", d |-> [key |-> value]]                     *)
(* A string is a sequence of tokens; the token "." is the dot character,   *)
(* every other token is an atomic run of characters.  Dictionary keys are  *)
(* strings, i.e. token sequences.                                          *)
(***************************************************************************)
EXTENDS Integers, Sequences, FiniteSets, TLC

VARIABLES
    pc,            \* "idle", "expand" (inside __read_dict_recursive), "done", "raised"
    entry,         \* the entry point being executed
    single,        \* the local `single` of read_dict
    stack,         \* the activations of __read_dict_recursive
    input,         \* the records handed to the outermost activation
    spec,          \* the field spec handed to the outermost activation
    result,        \* the value returned by the last call
    error,         \* the exception raised by the last call, "none" otherwise
    calls,         \* the remote calls issued so far
    ops,           \* the calls made on the client and its handles so far
    handles,       \* OdooClient._models: the models that have a handle
    field_info,    \* OdooModel._field_info of the handle of each model
    version_cache, \* OdooClient._version: 0 or the cached major version
    uid,           \* OdooClient._uid
    username,      \* OdooClient._username
    password,      \* OdooClient._password
    database       \* OdooClient._database

vars == <<pc, entry, single, stack, input, spec, result, error, calls, ops,
          handles, field_info, version_cache, uid, username, password,
          database>>

\* the fields of the client that authenticate and the database setter write
client == <<uid, username, password, database>>

----------------------------------------------------------------------------
(* Bounds of the model *)

\* records in the reply of a top-level read or search
MaxRecs == 2
\* relation fields followed one below the other by a generated field spec
MaxDepth == 2
\* records of each model on the server
MaxId == 2
\* calls of get_model and fields in one run
MaxCalls == 4
\* nesting of the mappings handed to the normalizer
MaxNormDepth == 2

----------------------------------------------------------------------------
(* Python values *)

VFalse == [k |-> "false"]
VTrue == [k |-> "true"]
VNone == [k |-> "none"]
VBool(b) == IF b THEN VTrue ELSE VFalse
VInt(n) == [k |-> "int", n |-> n]
VStr(s) == [k |-> "str", s |-> s]
VList(s) == [k |-> "list", l |-> s]
VSet(s) == [k |-> "set", e |-> s]
VDict(f) == [k |-> "dict", d |-> f]

EmptyMap == [x \in {} |-> VFalse]
EmptyDict == VDict(EmptyMap)

IsInt(x) == x.k = "int"
IsList(x) == x.k = "list"
IsDict(x) == x.k = "dict"

\* Python truthiness of a value
Truthy(x) ==
    CASE x.k = "false" -> FALSE
      [] x.k = "none" -> FALSE
      [] x.k = "true" -> TRUE
      [] x.k = "int" -> x.n # 0
      [] x.k = "str" -> x.s # <<>>
      [] x.k = "list" -> x.l # <<>>
      [] x.k = "set" -> x.e # {}
      [] x.k = "dict" -> DOMAIN x.d # {}

\* dict.get(key) on a mapping: None when the key is absent
Get(m, key) == IF key \in DOMAIN m THEN m[key] ELSE VFalse

\* m with m[key] = val (the key is added when absent)
Put(m, key, val) == [x \in DOMAIN m \cup {key} |-> IF x = key THEN val ELSE m[x]]

\* the elements of a set of integers as an ascending sequence
RECURSIVE SortedSeq(_)
SortedSeq(S) ==
    IF S = {} THEN <<>>
    ELSE LET m == CHOOSE x \in S : \A y \in S : x <= y
         IN <<m>> \o SortedSeq(S \ {m})

Range(s) == {s[i] : i \in DOMAIN s}

ID == <<"id">>
NAME == <<"name">>
PARTNER == <<"partner_id">>
LINES == <<"line_ids">>
DATE == <<"date">>

----------------------------------------------------------------------------
(* The remote server (external collaborator) *)

Models == {"A", "B"}
FieldNames == {ID, NAME, PARTNER, LINES, DATE}

\* relation target of a relation field of model m: partner_id links A and B
\* in a cycle (A -> B -> A), line_ids of B references B itself
RelationOf(m, f) ==
    CASE f = PARTNER -> IF m = "A" THEN "B" ELSE "A"
      [] f = LINES -> "B"

TypeOf(f) ==
    CASE f = ID -> "integer"
      [] f = NAME -> "char"
      [] f = PARTNER -> "many2one"
      [] f = LINES -> "one2many"
      [] f = DATE -> "datetime"

\* one field descriptor; the restricted projection carries string, type and
\* relation, the full attribute set carries help and, when the server
\* provides it, name
Descriptor(m, f, full, has_name) ==
    LET base == [a \in {<<"string">>, <<"type">>} |->
                    IF a = <<"type">> THEN VStr(<<TypeOf(f)>>) ELSE VStr(f)]
        rel == IF f \in {PARTNER, LINES}
               THEN Put(base, <<"relation">>, VStr(<<RelationOf(m, f)>>))
               ELSE base
        ext == IF full THEN Put(rel, <<"help">>, VStr(<<"help">>)) ELSE rel
    IN VDict(IF full /\ has_name THEN Put(ext, <<"name">>, VStr(f)) ELSE ext)

\* reply of fields_get(allfields=[], attributes=...): an empty attribute
\* list selects every attribute
FieldsGet(m, attributes, has_name) ==
    VDict([f \in FieldNames |-> Descriptor(m, f, attributes = {}, has_name)])

\* stored value of field f of record n of model m, in raw form
ServerVal(m, n, f) ==
    CASE f = ID -> VInt(n)
      [] f = NAME -> VStr(<<m, ToString(n)>>)
      [] f = PARTNER -> IF n % 2 = 1 THEN VInt((n % MaxId) + 1) ELSE VFalse
      [] f = LINES -> IF n % 2 = 1 THEN VList(<<VInt((n % MaxId) + 1), VInt(n)>>)
                      ELSE VList(<<>>)
      [] OTHER -> VFalse

ServerRecord(m, n, flds) == [f \in flds \cup {ID} |-> ServerVal(m, n, f)]

\* reply of read(ids, fields, load='raw') when the server finds the records
\* ret among the requested ones
ReadReply(m, ret, flds) ==
    LET s == SortedSeq({x.n : x \in ret})
    IN [i \in 1..Len(s) |-> VDict(ServerRecord(m, s[i], flds))]

\* the ids a read may be answered for: integer ids the server can hold
Readable(ids) == {x \in ids : IsInt(x) /\ x.n \in 1..MaxId}

----------------------------------------------------------------------------
(* OdooModel.fields: the field metadata cache *)

RestrictedAttrs ==
    {<<"string">>, <<"type">>, <<"readonly">>, <<"required">>, <<"store">>,
     <<"relation">>}

\* the condition under which fields(extended) calls fields_get
\* faulty variant: every extended call fetches again
FieldsMustFetchExtended(cache, extended) == ~Truthy(cache) \/ extended

FieldsMustFetch(cache, extended) ==
    \/ ~Truthy(cache)
    \/ extended /\ ~Truthy(Get(cache.d[ID].d, <<"name">>))

FieldsAttributes(extended) == IF extended THEN {} ELSE RestrictedAttrs

\* one entry of the log of remote calls (OdooClient._execute_kw): path is
\* the chain of relation fields that leads to the batch read of an
\* expansion, empty for any other call
CallAt(method, m, ids, names, ret, path) ==
    [method |-> method, model |-> m, ids |-> ids, names |-> names, ret |-> ret,
     path |-> path]

Call(method, m, ids, names, ret) == CallAt(method, m, ids, names, ret, <<>>)

\* one entry of the log of the calls made by the user of the library
Op(name, m, a1, a2) == [op |-> name, model |-> m, a1 |-> a1, a2 |-> a2]

FieldsCallEntry(m, extended) ==
    Call("fields_get", m, {}, FieldsAttributes(extended), {})

\* value of self._field_info after fields(extended) when the fetch, if any,
\* is answered
FieldsCache(m, cache, extended, has_name) ==
    IF FieldsMustFetch(cache, extended)
    THEN FieldsGet(m, FieldsAttributes(extended), has_name)
    ELSE cache


----------------------------------------------------------------------------
(* OdooModel.__read_dict_recursive: the relation expander *)

\* set(child_fields): the keys of a mapping, the elements of a list or set
KeySet(fields) ==
    CASE fields.k = "dict" -> DOMAIN fields.d
      [] fields.k = "list" -> {x.s : x \in Range(fields.l)}
      [] fields.k = "set" -> {x.s : x \in fields.e}
      [] OTHER -> {}

\* multi-relation field: union the ids of the list values, replace any other
\* value by the empty list
RECURSIVE ManyCollect(_, _, _)
ManyCollect(data, f, i) ==
    IF i > Len(data) THEN [data |-> data, ids |-> {}, ok |-> TRUE]
    ELSE LET value == Get(data[i].d, f)
             rest == ManyCollect(data, f, i + 1)
         IN IF IsList(value)
            THEN [rest EXCEPT !.ids = rest.ids \cup Range(value.l)]
            ELSE [rest EXCEPT !.data[i] = VDict(Put(data[i].d, f, VList(<<>>)))]

\* single-relation field: a non-zero integer is an id, a list must be a
\* rendered pair (id, label) and is replaced by its id
RECURSIVE OneCollect(_, _, _)
OneCollect(data, f, i) ==
    IF i > Len(data) THEN [data |-> data, ids |-> {}, ok |-> TRUE]
    ELSE LET value == Get(data[i].d, f)
             rest == OneCollect(data, f, i + 1)
         IN IF IsInt(value) /\ value.n # 0
            THEN [rest EXCEPT !.ids = rest.ids \cup {value}]
            ELSE IF IsList(value)
            THEN IF Len(value.l) = 2 /\ ~IsInt(value.l[2])
                 THEN [rest EXCEPT !.ids = rest.ids \cup {value.l[1]},
                                   !.data[i] = VDict(Put(data[i].d, f, value.l[1]))]
                 ELSE [rest EXCEPT !.ok = FALSE]
            ELSE rest

Collect(data, f, many) ==
    IF many THEN ManyCollect(data, f, 1) ELSE OneCollect(data, f, 1)

\* the guard of the `continue` that skips the batch read
\* faulty variant: the children are read even when only id is requested
SkipReadEmptyOnly(ids, child_fields) == ids = {}

SkipRead(ids, child_fields) == ids = {} \/ KeySet(child_fields) \ {ID} = {}

\* faulty variant: the recursive call receives the whole spec again
ChildSpecWhole(fields, field_name) == fields

\* the sub-tree of the field in the spec: the spec of the recursive call
ChildSpec(fields, field_name) == fields.d[field_name]

\* the descriptor of the field in the metadata, {} when unknown
FieldInfo(info, field_name) ==
    LET desc == Get(info.d, field_name)
    IN IF IsDict(desc) THEN desc.d ELSE EmptyMap

\* the related model of a descriptor, false for a field that is no relation
RelationName(field_desc) == Get(field_desc, <<"relation">>)

\* every relation but many2one holds a list of ids
IsMany(field_desc) == Get(field_desc, <<"type">>) # VStr(<<"many2one">>)

\* faulty variant: children_data[v] without the default, the id is left where
\* no record came back
ChildDropMissing(children_data, v) ==
    LET hits == {j \in DOMAIN children_data : children_data[j].d[ID] = v}
    IN IF hits # {} THEN children_data[CHOOSE j \in hits : TRUE] ELSE v

\* {e['id']: e for e in children_data} followed by .get(v) or {"id": v}
Child(children_data, v) ==
    LET hits == {j \in DOMAIN children_data : children_data[j].d[ID] = v}
    IN IF hits # {} /\ Truthy(children_data[CHOOSE j \in hits : \A h \in hits : h <= j])
       THEN children_data[CHOOSE j \in hits : \A h \in hits : h <= j]
       ELSE VDict(ID :> v)

\* faulty variant: the children are listed once each, in ascending id order
ReplaceManyDistinct(datum, f, children_data) ==
    LET value == Get(datum.d, f)
        lst == IF Truthy(value) THEN SortedSeq({x.n : x \in Range(value.l)}) ELSE <<>>
    IN VDict(Put(datum.d, f,
                 VList([j \in DOMAIN lst |-> Child(children_data, VInt(lst[j]))])))

\* faulty variant: an unset single relation is left unset
ReplaceOneKeepUnset(datum, f, children_data) ==
    LET v == Get(datum.d, f)
    IN VDict(Put(datum.d, f, IF Truthy(v) THEN Child(children_data, v) ELSE v))

\* the rewrite of one record's field from the expanded children
ReplaceMany(datum, f, children_data) ==
    LET value == Get(datum.d, f)
        lst == IF Truthy(value) THEN value.l ELSE <<>>
    IN VDict(Put(datum.d, f,
                 VList([j \in DOMAIN lst |-> Child(children_data, lst[j])])))

ReplaceOne(datum, f, children_data) ==
    LET v == Get(datum.d, f)
    IN VDict(Put(datum.d, f,
                 IF Truthy(v) THEN Child(children_data, v) ELSE EmptyDict))

Replace(data, f, many, children_data) ==
    [i \in DOMAIN data |->
        IF many THEN ReplaceMany(data[i], f, children_data)
        ELSE ReplaceOne(data[i], f, children_data)]

\* one activation of __read_dict_recursive on the handle of `model`: pos is
\* "enter" before the loop, "loop" inside it; cur and many are the field whose
\* children are being expanded by the activation above this one
Frame(model, fields, data) ==
    [model |-> model, fields |-> fields, data |-> data, pos |-> "enter",
     todo |-> {}, cur |-> <<>>, many |-> FALSE]

Top == stack[Len(stack)]
SetTop(fr) == [stack EXCEPT ![Len(stack)] = fr]

Raise(err) ==
    /\ pc' = "raised"
    /\ error' = err
    /\ stack' = <<>>
    /\ result' = VFalse


----------------------------------------------------------------------------
(* OdooModel.__prepare_dict_fields: the field-path normalizer *)

DOT == "."

\* str.split('.') on a token sequence: the segments between the dots
RECURSIVE Split(_)
Split(s) ==
    IF \A i \in DOMAIN s : s[i] # DOT THEN <<s>>
    ELSE LET d == CHOOSE i \in DOMAIN s :
                      s[i] = DOT /\ \A j \in 1..(i - 1) : s[j] # DOT
         IN <<SubSeq(s, 1, d - 1)>> \o Split(SubSeq(s, d + 1, Len(s)))

\* the inner loop over one split path: create the missing levels
RECURSIVE InsertPath(_, _)
InsertPath(level, segs) ==
    IF segs = <<>> THEN level
    ELSE LET f == Head(segs)
             sub == IF f \in DOMAIN level THEN level[f] ELSE EmptyDict
         IN Put(level, f, VDict(InsertPath(sub.d, Tail(segs))))

\* the list branch: a sequence of dotted paths becomes a nested mapping
RECURSIVE PrepareList(_, _)
PrepareList(new_fields, lst) ==
    IF lst = <<>> THEN new_fields
    ELSE PrepareList(InsertPath(new_fields, Split(Head(lst).s)), Tail(lst))

\* list(v) of a set: its elements in some order
RECURSIVE SetToSeq(_)
SetToSeq(S) ==
    IF S = {} THEN <<>>
    ELSE LET x == CHOOSE y \in S : TRUE IN <<x>> \o SetToSeq(S \ {x})

\* the mapping branch: only list and set values are normalized, the other
\* entries are copied as they are; without any list or set value the input
\* itself is returned
PrepareDict(fields) ==
    LET conv == {key \in DOMAIN fields : fields[key].k \in {"list", "set"}}
        new_fields == [key \in conv |->
            VDict(PrepareList(EmptyMap,
                IF fields[key].k = "set" THEN SetToSeq(fields[key].e)
                ELSE fields[key].l))]
    IN IF conv # {}
       THEN [key \in DOMAIN fields |->
                IF key \in conv THEN new_fields[key] ELSE fields[key]]
       ELSE fields

\* result of __prepare_dict_fields: err is the exception raised, if any
Prepare(fields) ==
    CASE fields.k = "list" ->
            [err |-> "none", v |-> VDict(PrepareList(EmptyMap, fields.l))]
      [] fields.k = "dict" -> [err |-> "none", v |-> VDict(PrepareDict(fields.d))]
      [] OTHER -> [err |-> "ValueError", v |-> VFalse]

\* list(fields) as passed to the remote read: the keys
KeyList(fields) == KeySet(fields)


----------------------------------------------------------------------------
(* Inputs of the entry points and replies of the top-level fetch *)

\* the selections of scalar fields at the end of a chain
LeafTrees == {VDict([f \in S |-> EmptyDict]) : S \in SUBSET {ID, NAME}}

\* the field specs that follow at most n relation fields one below the
\* other, ending in a selection of scalar fields
RECURSIVE Chains(_)
Chains(n) ==
    IF n = 0 THEN LeafTrees
    ELSE LeafTrees \cup {VDict(r :> t) : r \in {PARTNER, LINES}, t \in Chains(n - 1)}

\* the field specs that select both relation fields side by side
Forks == {VDict(PARTNER :> a @@ LINES :> b) : a, b \in LeafTrees}

CanonTrees == Chains(MaxDepth) \cup Forks

PathStrings ==
    {VStr(NAME), VStr(PARTNER \o <<DOT>> \o NAME), VStr(PARTNER \o <<DOT>> \o ID),
     VStr(LINES \o <<DOT>> \o NAME)}

PathLists ==
    {VList(<<>>)} \cup {VList(<<a>>) : a \in PathStrings}
                  \cup {VList(<<a, b>>) : a, b \in PathStrings}

\* a fields argument that is neither a list nor a mapping
BadFields == VStr(NAME)

\* a mapping with a list left below a mapping-valued entry
DeepList == VDict(PARTNER :> VDict(PARTNER :> VList(<<VStr(NAME)>>)))

FieldsInputs == CanonTrees \cup PathLists \cup {BadFields, DeepList}

\* a rendered pair (id, label) of a single-relation field, and a malformed
\* one whose second element is an integer
Pair(n) == VList(<<VInt(n), VStr(<<"Acme">>)>>)
BadPair == VList(<<VInt(1), VInt(2)>>)

\* what a row of a top-level reply may carry in partner_id (unset, a raw
\* id, a rendered pair, a malformed pair) and in line_ids (unset, a list of
\* ids with a repeated id)
RowVals ==
    {[p |-> VFalse, l |-> VFalse],
     [p |-> VInt(1), l |-> VList(<<VInt(2), VInt(1), VInt(2)>>)],
     [p |-> Pair(2), l |-> VList(<<VInt(2), VInt(1), VInt(2)>>)],
     [p |-> BadPair, l |-> VFalse]}

\* one row of a top-level reply: the id and the requested fields (every
\* field when none is requested)
Row(i, r, names) ==
    VDict([f \in {ID} \cup (IF names = {} THEN FieldNames ELSE names) |->
        CASE f = ID -> VInt(i)
          [] f = PARTNER -> r.p
          [] f = LINES -> r.l
          [] OTHER -> VStr(f \o <<ToString(i)>>)])

\* the replies made of one row for each id of the sequence ids
RowsFor(ids, names) ==
    {[i \in DOMAIN ids |-> Row(ids[i], rs[i], names)] : rs \in [DOMAIN ids -> RowVals]}

\* the replies of a search: the rows of the records 1..n
Datasets(names) ==
    UNION {RowsFor([i \in 1..n |-> i], names) : n \in 0..MaxRecs}

\* the replies of a read of the ids 1..n: rows for the first records found
ReadReplies(ids, names) ==
    UNION {RowsFor([i \in 1..n |-> i], names) : n \in 0..Cardinality(ids)}

\* the ids argument of read_dict: one integer, or a list of integers
IdsInputs == {VInt(1), VList([i \in 1..MaxRecs |-> VInt(i)])}


----------------------------------------------------------------------------
(* Bucket labels: strings of one-character tokens *)

Digits == {"0", "1", "2", "3", "4", "5", "6", "7", "8", "9"}

UpperCase ==
    {"A", "B", "C", "D", "E", "F", "G", "H", "I", "J", "K", "L", "M",
     "N", "O", "P", "Q", "R", "S", "T", "U", "V", "W", "X", "Y", "Z"}

LowerCase ==
    {"a", "b", "c", "d", "e", "f", "g", "h", "i", "j", "k", "l", "m",
     "n", "o", "p", "q", "r", "s", "t", "u", "v", "w", "x", "y", "z"}

IsDigit(c) == c \in Digits

\* the class \w of the regular expressions
IsWord(c) == c \in Digits \cup UpperCase \cup LowerCase \cup {"_"}

DigitVal(c) ==
    CASE c = "0" -> 0 [] c = "1" -> 1 [] c = "2" -> 2 [] c = "3" -> 3
      [] c = "4" -> 4 [] c = "5" -> 5 [] c = "6" -> 6 [] c = "7" -> 7
      [] c = "8" -> 8 [] c = "9" -> 9

DigitChar(n) ==
    CASE n = 0 -> "0" [] n = 1 -> "1" [] n = 2 -> "2" [] n = 3 -> "3"
      [] n = 4 -> "4" [] n = 5 -> "5" [] n = 6 -> "6" [] n = 7 -> "7"
      [] n = 8 -> "8" [] n = 9 -> "9"

\* str.lower() on the letters of the month names
Lower(c) ==
    CASE c = "J" -> "j" [] c = "F" -> "f" [] c = "M" -> "m" [] c = "A" -> "a"
      [] c = "S" -> "s" [] c = "O" -> "o" [] c = "N" -> "n" [] c = "D" -> "d"
      [] OTHER -> c

\* int(s) of a string of digits
RECURSIVE ParseInt(_)
ParseInt(s) ==
    IF s = <<>> THEN 0
    ELSE 10 * ParseInt(SubSeq(s, 1, Len(s) - 1)) + DigitVal(s[Len(s)])

\* "%d" % n for n >= 0
RECURSIVE FormatInt(_)
FormatInt(n) ==
    IF n < 10 THEN <<DigitChar(n)>>
    ELSE Append(FormatInt(n \div 10), DigitChar(n % 10))

\* "%02d" % n for n >= 0
Format02(n) == IF n < 10 THEN <<"0">> \o FormatInt(n) ELSE FormatInt(n)

\* get_month: the month number of the first three letters, 0 when unknown
get_month(value) ==
    LET low == [i \in DOMAIN value |-> Lower(value[i])]
        month == SubSeq(low, 1, IF Len(low) < 3 THEN Len(low) ELSE 3)
    IN CASE month = <<"j", "a", "n">> -> 1
         [] month = <<"f", "e", "b">> -> 2
         [] month = <<"m", "a", "r">> -> 3
         [] month = <<"a", "p", "r">> -> 4
         [] month = <<"m", "a", "y">> -> 5
         [] month = <<"j", "u", "n">> -> 6
         [] month = <<"j", "u", "l">> -> 7
         [] month = <<"a", "u", "g">> -> 8
         [] month = <<"s", "e", "p">> -> 9
         [] month = <<"o", "c", "t">> -> 10
         [] month = <<"n", "o", "v">> -> 11
         [] month = <<"d", "e", "c">> -> 12
         [] OTHER -> 0

\* end of the longest run of digits (of word characters) of s that starts at
\* position i; i - 1 when there is none
RECURSIVE DigitRun(_, _)
DigitRun(s, i) ==
    IF i <= Len(s) /\ IsDigit(s[i]) THEN DigitRun(s, i + 1) ELSE i - 1

RECURSIVE WordRun(_, _)
WordRun(s, i) ==
    IF i <= Len(s) /\ IsWord(s[i]) THEN WordRun(s, i + 1) ELSE i - 1

At(s, i, c) == i <= Len(s) /\ s[i] = c

NoMatch == [ok |-> FALSE, g |-> <<>>]
Match(groups) == [ok |-> TRUE, g |-> groups]

\* re.match of 'Q(\d) (\d+)'
MatchQuarter(s) ==
    LET e == DigitRun(s, 4)
    IN IF At(s, 1, "Q") /\ Len(s) >= 2 /\ IsDigit(s[2]) /\ At(s, 3, " ") /\ e >= 4
       THEN Match(<<SubSeq(s, 2, 2), SubSeq(s, 4, e)>>)
       ELSE NoMatch

\* re.match of '(\w+) (\d+)'
MatchMonth(s) ==
    LET w == WordRun(s, 1)
        e == DigitRun(s, w + 2)
    IN IF w >= 1 /\ At(s, w + 1, " ") /\ e >= w + 2
       THEN Match(<<SubSeq(s, 1, w), SubSeq(s, w + 2, e)>>)
       ELSE NoMatch

\* re.match of 'W(\w+) (\d+)'
MatchWeek(s) ==
    LET w == WordRun(s, 2)
        e == DigitRun(s, w + 2)
    IN IF At(s, 1, "W") /\ w >= 2 /\ At(s, w + 1, " ") /\ e >= w + 2
       THEN Match(<<SubSeq(s, 2, w), SubSeq(s, w + 2, e)>>)
       ELSE NoMatch

\* re.match of '(\d+) (\w+) (\d+)'
MatchDay(s) ==
    LET d == DigitRun(s, 1)
        w == WordRun(s, d + 2)
        e == DigitRun(s, w + 2)
    IN IF d >= 1 /\ At(s, d + 1, " ") /\ w >= d + 2 /\ At(s, w + 1, " ")
          /\ e >= w + 2
       THEN Match(<<SubSeq(s, 1, d), SubSeq(s, d + 2, w), SubSeq(s, w + 2, e)>>)
       ELSE NoMatch

AllDigits(s) == s # <<>> /\ \A i \in DOMAIN s : IsDigit(s[i])

----------------------------------------------------------------------------
(* OdooModel.__read_dict_date: the date bucket canonicalizer *)

Suffixes == {":quarter", ":month", ":week", ":day", ":hour"}

\* the recognized suffix a field name ends with, "" when there is none
SuffixOf(field) ==
    IF field # <<>> /\ field[Len(field)] \in Suffixes
    THEN field[Len(field)] ELSE ""

IsColonToken(t) == t \in Suffixes \cup {":year"}

\* field.split(':', 1)[0]: the tokens before the first colon
RECURSIVE RawField(_)
RawField(field) ==
    IF field = <<>> \/ IsColonToken(Head(field)) THEN <<>>
    ELSE <<Head(field)>> \o RawField(Tail(field))

Ok(v) == [err |-> "none", v |-> v]
Err(e) == [err |-> e, v |-> VFalse]

\* the mapper of each suffix applied to the bucket value v and the window
Mapper(suffix, v, range) ==
    IF suffix = ":hour"
    THEN IF ~Truthy(v) THEN Ok(v)
         ELSE IF ~IsDict(range) THEN Err("AttributeError")
         ELSE LET date == Get(range.d, <<"from">>)
              IN Ok(IF Truthy(date) THEN date ELSE v)
    ELSE IF ~Truthy(v) THEN Ok(v)
    ELSE IF v.k # "str" THEN Err("TypeError")
    ELSE CASE suffix = ":quarter" ->
                LET m == MatchQuarter(v.s)
                IN IF m.ok
                   THEN Ok(VStr(m.g[2] \o <<"-", "Q">> \o FormatInt(ParseInt(m.g[1]))))
                   ELSE Ok(v)
           [] suffix = ":month" ->
                LET m == MatchMonth(v.s)
                IN IF m.ok
                   THEN Ok(VStr(m.g[2] \o <<"-">> \o Format02(get_month(m.g[1]))))
                   ELSE Ok(v)
           [] suffix = ":week" ->
                LET m == MatchWeek(v.s)
                IN IF ~m.ok THEN Ok(v)
                   ELSE IF ~AllDigits(m.g[1]) THEN Err("ValueError")
                   ELSE Ok(VStr(m.g[2] \o <<"-", "W">> \o Format02(ParseInt(m.g[1]))))
           [] suffix = ":day" ->
                LET m == MatchDay(v.s)
                IN IF m.ok
                   THEN Ok(VStr(m.g[3] \o <<"-">> \o Format02(get_month(m.g[2]))
                                \o <<"-">> \o Format02(ParseInt(m.g[1]))))
                   ELSE Ok(v)

FROM == <<"from">>
TO == <<"to">>
RANGE == <<"__range">>
DOMAINKEY == <<"__domain">>

\* faulty variant: the last clause of each bound wins
RECURSIVE DomainRangeLast(_, _, _)
DomainRangeLast(domain, raw_field, d_range) ==
    IF domain = <<>> THEN d_range
    ELSE LET e == Head(domain)
             hit == IsList(e) /\ Len(e.l) = 3 /\ e.l[1] = VStr(raw_field)
             next == IF hit /\ e.l[2] = VStr(<<">=">>)
                     THEN Put(d_range, FROM, e.l[3])
                     ELSE IF hit /\ e.l[2] = VStr(<<"<">>)
                     THEN Put(d_range, TO, e.l[3])
                     ELSE d_range
         IN DomainRangeLast(Tail(domain), raw_field, next)

\* lines 423-429: the window of raw_field read off the echoed domain, the
\* first clause of each bound wins
RECURSIVE DomainRange(_, _, _)
DomainRange(domain, raw_field, d_range) ==
    IF domain = <<>> THEN d_range
    ELSE LET e == Head(domain)
             hit == IsList(e) /\ Len(e.l) = 3 /\ e.l[1] = VStr(raw_field)
             next == IF hit /\ e.l[2] = VStr(<<">=">>) /\ FROM \notin DOMAIN d_range
                     THEN Put(d_range, FROM, e.l[3])
                     ELSE IF hit /\ e.l[2] = VStr(<<"<">>) /\ TO \notin DOMAIN d_range
                     THEN Put(d_range, TO, e.l[3])
                     ELSE d_range
         IN DomainRange(Tail(domain), raw_field, next)

\* lines 419-430 for one row d
DateRow(d, field, major) ==
    LET raw_field == RawField(field)
        has_range == major >= 15
    IN IF has_range /\ RANGE \notin DOMAIN d.d THEN Err("KeyError")
       ELSE IF has_range /\ ~IsDict(d.d[RANGE]) THEN Err("AttributeError")
       ELSE IF ~has_range /\ DOMAINKEY \notin DOMAIN d.d THEN Err("KeyError")
       ELSE IF ~has_range /\ ~IsList(d.d[DOMAINKEY]) THEN Err("TypeError")
       ELSE IF field \notin DOMAIN d.d THEN Err("KeyError")
       ELSE LET d_range == IF has_range THEN Get(d.d[RANGE].d, raw_field)
                           ELSE VDict(DomainRange(d.d[DOMAINKEY].l, raw_field, EmptyMap))
                r == Mapper(SuffixOf(field), d.d[field], d_range)
            IN IF r.err # "none" THEN r
               ELSE Ok(VDict(Put(d.d, field, r.v)))

\* the loop over the rows for one field
RECURSIVE DateRows(_, _, _, _)
DateRows(data, i, field, major) ==
    IF i > Len(data) THEN Ok(data)
    ELSE LET r == DateRow(data[i], field, major)
         IN IF r.err # "none" THEN r
            ELSE DateRows([data EXCEPT ![i] = r.v], i + 1, field, major)

\* the loop over the fields: only the fields with a recognized suffix count
RECURSIVE DateFields(_, _, _)
DateFields(data, fields, major) ==
    IF fields = <<>> THEN Ok(data)
    ELSE LET r == IF SuffixOf(Head(fields)) = "" THEN Ok(data)
                  ELSE DateRows(data, 1, Head(fields), major)
         IN IF r.err # "none" THEN r
            ELSE DateFields(r.v, Tail(fields), major)

\* whether __read_dict_date asks for the server version
NeedsVersion(fields) == \E f \in fields : SuffixOf(f) # ""

----------------------------------------------------------------------------
(* Inputs and replies of read_group_dict *)

\* fields in a groupby list
MaxGroupby == 2
\* groups in the reply of read_group
MaxGroupRows == 1

GroupStrings ==
    {VStr(PARTNER), VStr(PARTNER \o <<DOT>> \o NAME)}
    \cup {VStr(DATE \o <<t>>) : t \in Suffixes \cup {":year"}}

\* the groupby argument: a list of field names, a mapping, or neither
GroupbyInputs ==
    {VList(<<>>), EmptyDict, BadFields,
     VDict(PARTNER :> VList(<<VStr(NAME)>>))}
    \cup {VList(SetToSeq(g)) :
             g \in {x \in SUBSET GroupStrings : Cardinality(x) \in 1..MaxGroupby}}

\* bucket labels the server renders for each granularity, and one the
\* regular expression of the granularity does not match
Label(suffix) ==
    CASE suffix = ":quarter" -> VStr(<<"Q", "1", " ", "2", "0", "2", "4">>)
      [] suffix = ":month" -> VStr(<<"J", "a", "n", " ", "2", "0", "2", "4">>)
      [] suffix = ":week" -> VStr(<<"W", "5", " ", "2", "0", "2", "4">>)
      [] suffix = ":day" -> VStr(<<"3", " ", "F", "e", "b", " ", "2", "0", "2", "4">>)
      [] suffix = ":hour" -> VStr(<<"1", "0", ":", "0", "0", " ", "3", " ", "F", "e", "b">>)
      [] OTHER -> VStr(<<"2", "0", "2", "4">>)

OddLabel == VStr(<<"n", "/", "a">>)

Clause(field, op, value) == VList(<<VStr(field), VStr(<<op>>), VStr(<<value>>)>>)

\* echoed domains (__domain) of a group
DomainPool ==
    {VList(<<>>),
     VList(<<Clause(DATE, ">=", "2024-01-01"), Clause(DATE, "<", "2024-02-01")>>),
     VList(<<VStr(<<"&">>), Clause(PARTNER, ">=", "7"),
             Clause(DATE, "<", "2024-03-01"), Clause(DATE, ">=", "2024-02-01"),
             Clause(DATE, ">=", "2023-01-01")>>)}

\* explicit windows (__range) of a group
RangePool ==
    {EmptyDict,
     VDict(DATE :> VFalse),
     VDict(DATE :> VDict(FROM :> VStr(<<"2024-01-01">>) @@ TO :> VStr(<<"2024-02-01">>)))}

\* the values the key of a group row may carry
GroupVals(key, major) ==
    CASE key = PARTNER -> {VFalse, Pair(2)}
      [] key = DOMAINKEY ->
            IF major >= 15 THEN {VList(<<>>)} ELSE DomainPool
      [] key = RANGE -> RangePool
      [] OTHER -> {VFalse, OddLabel, Label(key[Len(key)])}

\* the values of a well-formed group row
PlainVal(key) ==
    CASE key = PARTNER -> Pair(2)
      [] key = DOMAINKEY -> VList(<<>>)
      [] key = RANGE -> VDict(DATE :> VFalse)
      [] OTHER -> Label(key[Len(key)])

RECURSIVE GroupMaps(_, _)
GroupMaps(keys, major) ==
    IF keys = {} THEN {EmptyMap}
    ELSE LET key == CHOOSE x \in keys : TRUE
         IN {Put(m, key, v) : m \in GroupMaps(keys \ {key}, major),
                              v \in GroupVals(key, major)}

\* the replies of read_group: rows with the groupby keys, the echoed domain
\* and, from version 15, the explicit windows
GroupRows(keys, major) ==
    LET all == keys \cup {DOMAINKEY} \cup (IF major >= 15 THEN {RANGE} ELSE {})
        plain == VDict([key \in all |-> PlainVal(key)])
    IN {<<>>} \cup {[i \in 1..n |-> IF i = n THEN VDict(m) ELSE plain] :
                       m \in GroupMaps(all, major), n \in 1..MaxGroupRows}

----------------------------------------------------------------------------
(* Remote calls *)

\* OdooClient.version / major_version: the reply is cached
VersionCall == Call("version", "", {}, {}, {})

\* self.fields() inside the expander on the handle of model m: the new
\* cache and call log, when the fetch (if any) is answered
FieldsOk(m) ==
    /\ field_info' = [field_info EXCEPT ![m] = FieldsCache(m, @, FALSE, FALSE)]
    /\ calls' = IF FieldsMustFetch(field_info[m], FALSE)
                THEN Append(calls, FieldsCallEntry(m, FALSE)) ELSE calls

FieldsFail(m) ==
    /\ FieldsMustFetch(field_info[m], FALSE)
    /\ calls' = Append(calls, FieldsCallEntry(m, FALSE))
    /\ UNCHANGED field_info
    /\ Raise("OdooServerError")

----------------------------------------------------------------------------
(* Steps of __read_dict_recursive *)

\* lines 435-437: an empty spec selects every field of the model; the loop
\* needs a mapping
Enter ==
    /\ pc = "expand"
    /\ UNCHANGED client
    /\ Top.pos = "enter"
    /\ UNCHANGED <<entry, single, input, spec, ops, handles, version_cache>>
    /\ IF ~Truthy(Top.fields)
       THEN \/ /\ FieldsOk(Top.model)
               /\ stack' = SetTop([Top EXCEPT
                      !.fields = VDict([f \in DOMAIN field_info'[Top.model].d |-> EmptyDict]),
                      !.todo = DOMAIN field_info'[Top.model].d,
                      !.pos = "loop"])
               /\ UNCHANGED <<pc, result, error>>
            \/ FieldsFail(Top.model)
       ELSE IF ~IsDict(Top.fields)
       THEN Raise("AttributeError") /\ UNCHANGED <<calls, field_info>>
       ELSE /\ stack' = SetTop([Top EXCEPT !.todo = DOMAIN Top.fields.d,
                                           !.pos = "loop"])
            /\ UNCHANGED <<pc, result, error, calls, field_info>>

\* the call log and the caches after self.fields() on the handle of model m
CallsAfterFields(m) ==
    IF FieldsMustFetch(field_info[m], FALSE)
    THEN Append(calls, FieldsCallEntry(m, FALSE)) ELSE calls

CacheAfterFields(m) ==
    [field_info EXCEPT ![m] = FieldsCache(m, @, FALSE, FALSE)]

\* lines 437-469: one iteration of the loop, up to the `continue` or up to
\* the recursive call on the batch read of the children
Field ==
    /\ pc = "expand"
    /\ UNCHANGED client
    /\ Top.pos = "loop"
    /\ UNCHANGED <<entry, single, input, spec, ops, version_cache>>
    /\ \E field_name \in Top.todo :
        \/ FieldsFail(Top.model) /\ UNCHANGED handles
        \/ LET child_fields == ChildSpec(Top.fields, field_name)
               field_desc == FieldInfo(CacheAfterFields(Top.model)[Top.model],
                                       field_name)
               relation == RelationName(field_desc)
               model_name == relation.s[1]
               many == IsMany(field_desc)
               path == [i \in 1..Len(stack) |->
                           IF i < Len(stack) THEN stack[i].cur ELSE field_name]
               c == Collect(Top.data, field_name, many)
               next == [Top EXCEPT !.todo = @ \ {field_name}]
               names == KeySet(child_fields)
           IN /\ field_info' = CacheAfterFields(Top.model)
              /\ IF ~Truthy(relation)
                 THEN /\ stack' = SetTop(next)
                      /\ calls' = CallsAfterFields(Top.model)
                      /\ UNCHANGED <<pc, result, error, handles>>
                 ELSE IF ~c.ok
                 THEN /\ Raise("AssertionError")
                      /\ calls' = CallsAfterFields(Top.model)
                      /\ UNCHANGED handles
                 ELSE IF SkipRead(c.ids, child_fields)
                 THEN /\ stack' = SetTop([next EXCEPT !.data = c.data])
                      /\ calls' = CallsAfterFields(Top.model)
                      /\ UNCHANGED <<pc, result, error, handles>>
                 ELSE /\ handles' = handles \cup {model_name}
                      /\ \/ \E ret \in SUBSET Readable(c.ids) :
                               /\ calls' = Append(CallsAfterFields(Top.model),
                                      CallAt("read", model_name, c.ids, names,
                                             ret, path))
                               /\ stack' = Append(
                                      SetTop([next EXCEPT !.data = c.data,
                                                          !.cur = field_name,
                                                          !.many = many]),
                                      Frame(model_name, child_fields,
                                            ReadReply(model_name, ret, names)))
                               /\ UNCHANGED <<pc, result, error>>
                         \/ /\ calls' = Append(CallsAfterFields(Top.model),
                                   CallAt("read", model_name, c.ids, names, {},
                                          path))
                            /\ Raise("OdooServerError")

\* the value returned to the caller of the entry point: read_dict in single
\* mode returns result[0]
Unwrap(data) ==
    IF entry = "read_dict" /\ single
    THEN IF Len(data) >= 1 THEN [err |-> "none", v |-> data[1]]
         ELSE [err |-> "IndexError", v |-> VFalse]
    ELSE [err |-> "none", v |-> VList(data)]

\* lines 470-483: the loop of an activation is over; the caller rewrites its
\* records from the expanded children, the outermost activation returns
Return ==
    /\ pc = "expand"
    /\ UNCHANGED client
    /\ Top.pos = "loop"
    /\ Top.todo = {}
    /\ UNCHANGED <<entry, single, input, spec, version_cache, calls, ops,
                   handles, field_info>>
    /\ IF Len(stack) > 1
       THEN LET parent == stack[Len(stack) - 1]
            IN /\ stack' = [SubSeq(stack, 1, Len(stack) - 1) EXCEPT
                       ![Len(stack) - 1].data =
                           Replace(parent.data, parent.cur, parent.many, Top.data)]
               /\ UNCHANGED <<pc, result, error>>
       ELSE IF Unwrap(Top.data).err # "none"
       THEN Raise(Unwrap(Top.data).err)
       ELSE /\ pc' = "done"
            /\ result' = Unwrap(Top.data).v
            /\ stack' = <<>>
            /\ UNCHANGED error

----------------------------------------------------------------------------
(* Entry points *)

\* lines 494-503 of _search_read: before version 15 a rendered pair
\* [id, label] is replaced by its id
IsRendered(v) ==
    /\ IsList(v)
    /\ Len(v.l) = 2
    /\ IsInt(v.l[1])
    /\ v.l[2].k = "str"

Unrender(data) ==
    [i \in DOMAIN data |->
        VDict([key \in DOMAIN data[i].d |->
            IF IsRendered(data[i].d[key]) THEN data[i].d[key].l[1]
            ELSE data[i].d[key]])]

\* start of the expansion of `data` against `fields` on the handle of A
Expand(name, data, fields) ==
    /\ pc' = "expand"
    /\ entry' = name
    /\ stack' = <<Frame("A", fields, data)>>
    /\ input' = data
    /\ spec' = fields
    /\ UNCHANGED <<result, error>>

\* an entry point fails before the expansion
Fail(name, err) ==
    /\ entry' = name
    /\ Raise(err)
    /\ UNCHANGED <<input, spec>>

\* the major version major_version returns: the server's when it is first
\* asked, the cached one afterwards
ServerMajor == IF version_cache = 0 THEN {14, 15} ELSE {version_cache}

\* the call log after major_version: the version is fetched once
VersionCalls == IF version_cache = 0 THEN Append(calls, VersionCall) ELSE calls

\* search_read_dict(domain, fields) on the handle of model A
SearchReadDict ==
    /\ pc = "idle"
    /\ UNCHANGED client
    /\ "A" \in handles
    /\ UNCHANGED <<single, handles, field_info>>
    /\ \E fields_in \in FieldsInputs :
        LET prep == Prepare(fields_in)
            names == KeyList(prep.v)
        IN /\ ops' = Append(ops, Op("search_read_dict", "A", VFalse, fields_in))
           /\ IF prep.err # "none"
              THEN Fail("search_read_dict", prep.err)
                   /\ UNCHANGED <<calls, version_cache>>
              ELSE
                \/ /\ version_cache = 0
                   /\ Fail("search_read_dict", "OdooServerError")
                   /\ calls' = Append(calls, VersionCall)
                   /\ UNCHANGED version_cache
                \/ \E major \in ServerMajor :
                      /\ version_cache' = major
                      /\ calls' = Append(VersionCalls,
                             Call("search_read", "A", {}, names, {}))
                      /\ \/ Fail("search_read_dict", "OdooServerError")
                         \/ \E data \in Datasets(names) :
                               Expand("search_read_dict",
                                      IF major >= 15 THEN data
                                      ELSE Unrender(data),
                                      prep.v)

\* read_dict(ids, fields) on the handle of model A
ReadDict ==
    /\ pc = "idle"
    /\ UNCHANGED client
    /\ "A" \in handles
    /\ UNCHANGED <<handles, field_info, version_cache>>
    /\ \E ids_in \in IdsInputs, fields_in \in FieldsInputs :
        LET ids == IF IsInt(ids_in) THEN <<ids_in>> ELSE ids_in.l
            prep == Prepare(fields_in)
            names == KeyList(prep.v)
        IN /\ ops' = Append(ops, Op("read_dict", "A", ids_in, fields_in))
           /\ single' = IsInt(ids_in)
           /\ IF prep.err # "none"
              THEN Fail("read_dict", prep.err) /\ UNCHANGED calls
              ELSE /\ calls' = Append(calls,
                          Call("read", "A", Range(ids), names, {}))
                   /\ \/ Fail("read_dict", "OdooServerError")
                      \/ \E data \in ReadReplies({x.n : x \in Range(ids)}, names) :
                            Expand("read_dict", data, prep.v)

\* faulty variant: the groupby is never found missing
MissingGroupbyNever(groupby_list) == FALSE

\* line 557: no field to group by
MissingGroupby(groupby_list) == groupby_list = {}

\* the read_group call of line 560 with the rows the program went on with,
\* false when the call or the version lookup after it failed
GroupCall(groupby_list, reply) == Call("read_group", "A", {}, groupby_list, reply)

\* read_group_dict(domain, aggregates, groupby) on the handle of model A
ReadGroupDict ==
    /\ pc = "idle"
    /\ UNCHANGED client
    /\ "A" \in handles
    /\ UNCHANGED <<single, handles, field_info>>
    /\ \E groupby \in GroupbyInputs :
        LET groupby_parsed == Prepare(groupby)
            groupby_list == KeyList(groupby_parsed.v)
            group_call == GroupCall(groupby_list, VFalse)
            ask == NeedsVersion(groupby_list) /\ version_cache = 0
        IN /\ ops' = Append(ops, Op("read_group_dict", "A", VFalse, groupby))
           /\ IF groupby_parsed.err # "none"
              THEN Fail("read_group_dict", groupby_parsed.err)
                   /\ UNCHANGED <<calls, version_cache>>
              ELSE IF MissingGroupby(groupby_list)
              THEN Fail("read_group_dict", "ValueError")
                   /\ UNCHANGED <<calls, version_cache>>
              ELSE
                \/ /\ Fail("read_group_dict", "OdooServerError")
                   /\ calls' = Append(calls, group_call)
                   /\ UNCHANGED version_cache
                \/ /\ ask
                   /\ Fail("read_group_dict", "OdooServerError")
                   /\ calls' = Append(Append(calls, group_call), VersionCall)
                   /\ UNCHANGED version_cache
                \/ \E major \in ServerMajor :
                      /\ version_cache' = IF NeedsVersion(groupby_list)
                                          THEN major ELSE version_cache
                      /\ \E data \in GroupRows(groupby_list, major) :
                           LET r == DateFields(data, SetToSeq(groupby_list), major)
                               answered == GroupCall(groupby_list, VList(data))
                           IN /\ calls' = IF ask
                                          THEN Append(Append(calls, answered), VersionCall)
                                          ELSE Append(calls, answered)
                              /\ IF r.err # "none"
                                 THEN Fail("read_group_dict", r.err)
                                 ELSE Expand("read_group_dict", r.v, groupby_parsed.v)

----------------------------------------------------------------------------
(* The session of the client *)

\* a client that has logged in: _execute_kw (line 160) lets its calls through
Authenticated ==
    /\ uid = VInt(1)
    /\ username = VStr(<<"admin">>)
    /\ password = VStr(<<"pw">>)
    /\ database = VStr(<<"db">>)

\* OdooClient.is_connected(): self._uid is not None
is_connected == uid # VNone

\* what the server answers to common.authenticate: the uid of the user,
\* false for wrong credentials, nothing at all
AuthReplies == {VInt(2), VFalse, VNone}

\* the errors of a remote call: an error reply, a failed transport
CallErrors == {"OdooServerError", "HTTPError"}

\* the body of authenticate(user, pw), lines 117-137, against the database
\* db; `outcome` is how the call ended
AuthBody(user, pw, db, name, arg) ==
    /\ username' = user
    /\ password' = pw
    /\ IF ~Truthy(user)
       THEN /\ uid' = VNone
            /\ error' = "none"
            /\ ops' = Append(ops, Op(name, "", arg, VStr(<<"logout">>)))
            /\ UNCHANGED calls
       ELSE IF ~Truthy(db)
       THEN /\ uid' = VNone
            /\ error' = "OdooServerError"
            /\ ops' = Append(ops, Op(name, "", arg, VStr(<<"nodb">>)))
            /\ UNCHANGED calls
       ELSE /\ calls' = Append(calls, Call("authenticate", "", {}, {}, {}))
            /\ \/ \E err \in CallErrors :
                     /\ uid' = VNone
                     /\ error' = err
                     /\ ops' = Append(ops, Op(name, "", arg, VStr(<<"transport">>)))
               \/ \E reply \in AuthReplies :
                     /\ uid' = reply
                     /\ error' = IF Truthy(reply) THEN "none" ELSE "OdooServerError"
                     /\ ops' = Append(ops, Op(name, "", arg,
                            VStr(<<IF Truthy(reply) THEN "accepted" ELSE "rejected">>)))

\* client.authenticate(username, password)
Authenticate ==
    /\ pc = "idle"
    /\ Len(ops) < MaxCalls
    /\ UNCHANGED <<pc, entry, single, stack, input, spec, handles, field_info,
                   version_cache, database>>
    /\ result' = VNone
    /\ \E user \in {VStr(<<>>), VStr(<<"admin">>)}, pw \in {VStr(<<>>), VStr(<<"pw">>)} :
          AuthBody(user, pw, database, "authenticate", user)

\* client.database = db: None is refused, otherwise the client logs out
\* (authenticate('', '')) and takes the database
SetDatabase ==
    /\ pc = "idle"
    /\ Len(ops) < MaxCalls
    /\ UNCHANGED <<pc, entry, single, stack, input, spec, handles, field_info,
                   version_cache>>
    /\ result' = VNone
    /\ \E db \in {VNone, VStr(<<>>), VStr(<<"db">>)} :
          IF db = VNone
          THEN /\ error' = "ValueError"
               /\ ops' = Append(ops, Op("database", "", db, VStr(<<"refused">>)))
               /\ UNCHANGED <<calls, uid, username, password, database>>
          ELSE /\ AuthBody(VStr(<<>>), VStr(<<>>), database, "database", db)
               /\ database' = db

\* client.is_connected()
IsConnected ==
    /\ pc = "idle"
    /\ Len(ops) < MaxCalls
    /\ UNCHANGED <<pc, entry, single, stack, input, spec, handles, field_info,
                   version_cache, calls>>
    /\ UNCHANGED client
    /\ ops' = Append(ops, Op("is_connected", "", VFalse, VFalse))
    /\ result' = VBool(is_connected)
    /\ error' = "none"

\* _execute_kw(model, method): refused before any remote call unless _uid is
\* truthy
ExecuteKw ==
    /\ pc = "idle"
    /\ Len(ops) < MaxCalls
    /\ UNCHANGED <<pc, entry, single, stack, input, spec, handles, field_info,
                   version_cache>>
    /\ UNCHANGED client
    /\ ops' = Append(ops, Op("execute_kw", "A", VFalse, VFalse))
    /\ IF ~Truthy(uid)
       THEN /\ error' = "RuntimeError"
            /\ result' = VNone
            /\ UNCHANGED calls
       ELSE /\ calls' = Append(calls, Call("execute_kw", "A", {}, {}, {}))
            /\ \/ \E err \in CallErrors : error' = err /\ result' = VNone
               \/ error' = "none" /\ result' = VTrue

\* a client as __init__ leaves it (lines 71-77), with or without a database
InitSession ==
    /\ pc = "idle"
    /\ entry = "none"
    /\ single = FALSE
    /\ stack = <<>>
    /\ input = <<>>
    /\ spec = EmptyDict
    /\ result = VFalse
    /\ error = "none"
    /\ calls = <<>>
    /\ ops = <<>>
    /\ handles = {}
    /\ field_info = [m \in Models |-> VFalse]
    /\ version_cache = 0
    /\ uid = VNone
    /\ username = VStr(<<>>)
    /\ password = VStr(<<>>)
    /\ database \in {VStr(<<>>), VStr(<<"db">>)}

NextSession ==
    \/ Authenticate
    \/ SetDatabase
    \/ IsConnected
    \/ ExecuteKw

SpecSession == InitSession /\ [][NextSession]_vars

----------------------------------------------------------------------------
(* The field metadata cache as seen by the user of the library *)

\* client.get_model(m, check): the handle of m is created once and kept;
\* with check, fields() is called and any failure is reported as
\* OdooServerError('Model ... not found')
GetModel ==
    /\ pc = "idle"
    /\ UNCHANGED client
    /\ Len(ops) < MaxCalls
    /\ UNCHANGED <<pc, entry, single, stack, input, spec, version_cache>>
    /\ \E m \in Models, check \in BOOLEAN :
        /\ ops' = Append(ops, Op("get_model", m, VBool(check), VFalse))
        /\ handles' = handles \cup {m}
        /\ result' = VStr(<<m>>)
        /\ IF check /\ FieldsMustFetch(field_info[m], FALSE)
           THEN /\ calls' = Append(calls, FieldsCallEntry(m, FALSE))
                /\ \/ /\ field_info' = CacheAfterFields(m)
                      /\ error' = "none"
                   \/ /\ error' = "OdooServerError"
                      /\ UNCHANGED field_info
           ELSE /\ error' = "none"
                /\ UNCHANGED <<calls, field_info>>

\* handle.fields(extended) on the handle of a model
Fields ==
    /\ pc = "idle"
    /\ UNCHANGED client
    /\ Len(ops) < MaxCalls
    /\ UNCHANGED <<pc, entry, single, stack, input, spec, handles,
                   version_cache>>
    /\ \E m \in handles, extended \in BOOLEAN :
        /\ ops' = Append(ops, Op("fields", m, VBool(extended), VFalse))
        /\ IF FieldsMustFetch(field_info[m], extended)
           THEN /\ calls' = Append(calls, FieldsCallEntry(m, extended))
                /\ \/ \E has_name \in BOOLEAN :
                        /\ field_info' = [field_info EXCEPT
                               ![m] = FieldsCache(m, @, extended, has_name)]
                        /\ result' = field_info'[m]
                        /\ error' = "none"
                   \/ /\ error' = "OdooServerError"
                      /\ result' = VFalse
                      /\ UNCHANGED field_info
           ELSE /\ result' = field_info[m]
                /\ error' = "none"
                /\ UNCHANGED <<calls, field_info>>

InitFields ==
    /\ pc = "idle"
    /\ entry = "none"
    /\ single = FALSE
    /\ stack = <<>>
    /\ input = <<>>
    /\ spec = EmptyDict
    /\ result = VFalse
    /\ error = "none"
    /\ calls = <<>>
    /\ ops = <<>>
    /\ handles = {}
    /\ field_info = [m \in Models |-> VFalse]
    /\ version_cache = 0
    /\ Authenticated

NextFields ==
    \/ GetModel
    \/ Fields

SpecFields == InitFields /\ [][NextFields]_vars

----------------------------------------------------------------------------

Init ==
    /\ pc = "idle"
    /\ entry = "none"
    /\ single = FALSE
    /\ stack = <<>>
    /\ input = <<>>
    /\ spec = EmptyDict
    /\ result = VFalse
    /\ error = "none"
    /\ calls = <<>>
    /\ ops = <<>>
    /\ handles = {"A"}
    /\ field_info = [m \in Models |-> VFalse]
    /\ version_cache = 0
    /\ Authenticated

----------------------------------------------------------------------------
(* The field-path normalizer on nested mappings *)

\* values of a nested fields mapping that are not mappings: lists and a
\* set of paths
NormLeaves ==
    {VList(<<VStr(NAME)>>), VSet({VStr(ID)}),
     VList(<<VStr(PARTNER \o <<DOT>> \o NAME)>>)}

\* the mappings nested at most n deep under the key partner_id, the
\* innermost entry being a list, a set or the empty mapping
RECURSIVE NormInner(_)
NormInner(n) ==
    IF n = 0 THEN {}
    ELSE {EmptyDict}
         \cup {VDict(PARTNER :> v) : v \in NormLeaves \cup NormInner(n - 1)}

\* the nested mappings of depth at most n over the keys partner_id and
\* line_ids, an entry being a list, a set or a mapping
NormDicts(n) ==
    UNION {{VDict(m) : m \in [keys -> NormLeaves \cup NormInner(n - 1)]} :
              keys \in SUBSET {PARTNER, LINES}}

NormInputs == NormDicts(MaxNormDepth) \cup CanonTrees \cup PathLists \cup {BadFields}

\* __prepare_dict_fields(fields) on its own
PrepareCall ==
    /\ pc = "idle"
    /\ UNCHANGED client
    /\ UNCHANGED <<single, stack, input, spec, calls, handles, field_info,
                   version_cache>>
    /\ \E fields \in NormInputs :
        /\ ops' = Append(ops, Op("prepare", "A", VFalse, fields))
        /\ entry' = "prepare"
        /\ result' = Prepare(fields).v
        /\ error' = Prepare(fields).err
        /\ pc' = IF Prepare(fields).err = "none" THEN "done" ELSE "raised"

NextPrepare == PrepareCall

SpecPrepare == Init /\ [][NextPrepare]_vars

----------------------------------------------------------------------------
(* The window of a group read off its echoed domain *)

\* elements of an echoed domain
MaxDomainLen == 3

\* what an echoed domain may hold: clauses on the field for each bound with
\* different values, a clause on another field, a clause with another
\* operator, an operator token, lists of two and of four elements
DomainElems ==
    {Clause(DATE, ">=", "2024-01-01"), Clause(DATE, ">=", "2023-01-01"),
     Clause(DATE, "<", "2024-02-01"), Clause(DATE, "<", "2025-01-01"),
     Clause(PARTNER, ">=", "7"), Clause(DATE, "=", "2024-01-15"),
     VStr(<<"&">>),
     VList(<<VStr(DATE), VStr(<<">=">>)>>),
     VList(<<VStr(DATE), VStr(<<">=">>), VStr(<<"2022-01-01">>), VStr(<<"x">>)>>)}

DomainInputs == UNION {[1..n -> DomainElems] : n \in 0..MaxDomainLen}

\* lines 422-429 on their own: the window of raw_field in a row's __domain
ResolveWindow ==
    /\ pc = "idle"
    /\ UNCHANGED client
    /\ UNCHANGED <<single, stack, input, spec, calls, handles, field_info,
                   version_cache>>
    /\ \E domain \in DomainInputs, raw_field \in {DATE, PARTNER} :
        /\ ops' = Append(ops, Op("window", "A", VList(domain), VStr(raw_field)))
        /\ entry' = "window"
        /\ result' = VDict(DomainRange(domain, raw_field, EmptyMap))
        /\ error' = "none"
        /\ pc' = "done"

NextWindow == ResolveWindow

SpecWindow == Init /\ [][NextWindow]_vars

\* read_dict and search_read_dict with the steps of the expansion
Next ==
    \/ ReadDict
    \/ SearchReadDict
    \/ Enter
    \/ Field
    \/ Return

Spec == Init /\ [][Next]_vars

\* read_group_dict with the steps of the expansion
NextGroup ==
    \/ ReadGroupDict
    \/ Enter
    \/ Field
    \/ Return

SpecGroup == Init /\ [][NextGroup]_vars

----------------------------------------------------------------------------
(* Vocabulary of the properties *)

ExpandEntries == {"read_dict", "search_read_dict", "read_group_dict"}

\* an entry point has returned the expanded records
Finished == pc = "done" /\ entry \in ExpandEntries

\* the records returned by the expansion, in the order of `input`
OutRows == IF entry = "read_dict" /\ single THEN <<result>> ELSE result.l

SingleFields == {f \in FieldNames : TypeOf(f) = "many2one"}
ManyFields == {f \in FieldNames : TypeOf(f) \in {"one2many", "many2many"}}
IsRelField(f) == f \in SingleFields \cup ManyFields

\* the value of field f in record i before the expansion
InVal(i, f) == Get(input[i].d, f)

\* a single-relation value that references a record: an id n or a rendered
\* pair (n, label)
References(v) == (IsInt(v) /\ v.n # 0) \/ (IsList(v) /\ Len(v.l) = 2)
RefId(v) == IF IsInt(v) THEN v ELSE v.l[1]
SingleIds(f) == {RefId(InVal(i, f)) : i \in {j \in DOMAIN input : References(InVal(j, f))}}

\* the sub-fields other than id that the spec requests below the field f
SubFields(f) == KeySet(spec.d[f]) \ {ID}

\* the batch reads issued by the expansion
BatchReads == {i \in DOMAIN calls : calls[i].method = "read" /\ calls[i].path # <<>>}
ReadsAt(path) == {i \in BatchReads : calls[i].path = path}

\* the batch read for the top-level field f returned the record n
Fetched(f, n) == \E i \in ReadsAt(<<f>>) : n \in calls[i].ret

\* out is the record n of model m as fetched for the sub-fields of f: the id,
\* the requested sub-fields, each one without requested sub-fields of its own
\* holding the stored value
NestedFor(out, m, n, f) ==
    /\ IsDict(out)
    /\ DOMAIN out.d = KeySet(spec.d[f]) \cup {ID}
    /\ out.d[ID] = VInt(n)
    /\ \A g \in DOMAIN spec.d[f].d :
          (~IsRelField(g) \/ KeySet(spec.d[f].d[g]) \ {ID} = {})
              => out.d[g] = ServerVal(m, n, g)

----------------------------------------------------------------------------
(* C1 *)

\* C1: after the expansion of a many2one field whose spec requests a
\* sub-field other than id, on records of which at least one references an
\* id, every record whose value was an id n or a pair (n, label) holds the
\* nested record fetched for n, and every record whose value was unset holds
\* the empty record {}.
C1_SingleRelationExpanded ==
    Finished =>
        \A f \in SingleFields \cap DOMAIN spec.d :
            (SubFields(f) # {} /\ SingleIds(f) # {}) =>
                \A i \in DOMAIN input :
                    LET v == InVal(i, f)
                        out == OutRows[i].d[f]
                    IN /\ (References(v) /\ Fetched(f, RefId(v)))
                            => NestedFor(out, RelationOf("A", f), RefId(v).n, f)
                       /\ ~Truthy(v) => out = EmptyDict

C1_Witness ==
    /\ Finished
    /\ spec = VDict(PARTNER :> VDict(NAME :> EmptyDict))
    /\ Len(input) = 2
    /\ InVal(1, PARTNER) = Pair(2)
    /\ InVal(2, PARTNER) = VFalse
    /\ Fetched(PARTNER, VInt(2))
    /\ result.l[1].d[PARTNER] = VDict(ID :> VInt(2) @@ NAME :> ServerVal("B", 2, NAME))
    /\ result.l[2].d[PARTNER] = EmptyDict

----------------------------------------------------------------------------
(* C2 *)

\* C2: with a spec whose sub-tree for a many2one field contains only id, on
\* records that reference at least one id, no batch read is issued on the
\* related model and every referencing record's value is {"id": n}.
C2_IdOnlyRecord ==
    Finished =>
        \A f \in SingleFields \cap DOMAIN spec.d :
            (KeySet(spec.d[f]) = {ID} /\ SingleIds(f) # {}) =>
                /\ ReadsAt(<<f>>) = {}
                /\ \A i \in DOMAIN input :
                      References(InVal(i, f))
                          => OutRows[i].d[f] = VDict(ID :> RefId(InVal(i, f)))

----------------------------------------------------------------------------
(* C3 *)

NoRelationSelected == \A f \in DOMAIN spec.d : ~IsRelField(f)

\* C3 as stated: with a spec in which no selected field is a relation field,
\* the empty spec included, the records are returned unchanged and no batch
\* read is issued.
C3_ScalarNoop ==
    (Finished /\ NoRelationSelected) => (OutRows = input /\ BatchReads = {})

\* what the loop does to a relation field whose children are not read: a
\* rendered pair becomes its id, a multi-relation value that is no list
\* becomes the empty list
Simplified(f, v) ==
    IF f \in SingleFields /\ IsList(v) THEN v.l[1]
    ELSE IF f \in ManyFields /\ ~IsList(v) THEN VList(<<>>)
    ELSE v

\* C3 as amended: with a non-empty spec in which no selected field is a
\* relation field the records are returned unchanged and no batch read is
\* issued; the empty spec selects every field of the model, so no batch read
\* is issued either but the relation fields of the records are simplified.
C3_ScalarNoopNonEmpty ==
    (Finished /\ NoRelationSelected) =>
        /\ BatchReads = {}
        /\ DOMAIN spec.d # {} => OutRows = input
        /\ DOMAIN spec.d = {} =>
              /\ Len(OutRows) = Len(input)
              /\ \A i \in DOMAIN input :
                    /\ DOMAIN OutRows[i].d = DOMAIN input[i].d \cup ManyFields
                    /\ \A f \in DOMAIN OutRows[i].d :
                          OutRows[i].d[f] = Simplified(f, InVal(i, f))

C3_Witness ==
    /\ Finished
    /\ spec = VDict(NAME :> EmptyDict)
    /\ Len(input) = 2
    /\ result = VList(input)
    /\ \A i \in DOMAIN calls : calls[i].method # "read"

----------------------------------------------------------------------------
(* C4 *)

\* C4 as stated: after the expansion of a multi-relation field, the output
\* sequence of every record has the length of the input id list and its
\* i-th element is the nested record whose id is the i-th input id.
C4_MultiOrder ==
    Finished =>
        \A f \in ManyFields \cap DOMAIN spec.d :
            \A i \in DOMAIN input :
                LET v == InVal(i, f)
                    out == OutRows[i].d[f]
                IN IsList(v) =>
                      /\ IsList(out)
                      /\ Len(out.l) = Len(v.l)
                      /\ \A j \in DOMAIN v.l :
                            /\ IsDict(out.l[j])
                            /\ Get(out.l[j].d, ID) = v.l[j]

\* C4 as amended: when the spec requests a sub-field other than id below the
\* multi-relation field, the output sequence has the length of the input id
\* list and its i-th element is the nested record whose id is the i-th input
\* id; when the spec requests nothing below the field, the id list is
\* returned as it is.
C4_MultiOrderWhenExpanded ==
    Finished =>
        \A f \in ManyFields \cap DOMAIN spec.d :
            \A i \in DOMAIN input :
                LET v == InVal(i, f)
                    ids == IF IsList(v) THEN v.l ELSE <<>>
                    out == OutRows[i].d[f]
                IN /\ SubFields(f) # {} =>
                        /\ IsList(out)
                        /\ Len(out.l) = Len(ids)
                        /\ \A j \in DOMAIN ids :
                              /\ IsDict(out.l[j])
                              /\ Get(out.l[j].d, ID) = ids[j]
                   /\ KeySet(spec.d[f]) = {} => out = VList(ids)

C4_Witness ==
    /\ Finished
    /\ spec = VDict(LINES :> VDict(NAME :> EmptyDict))
    /\ Len(input) >= 1
    /\ InVal(1, LINES) = VList(<<VInt(2), VInt(1), VInt(2)>>)
    /\ Fetched(LINES, VInt(1))
    /\ Fetched(LINES, VInt(2))
    /\ OutRows[1].d[LINES] =
           VList(<<VDict(ServerRecord("B", 2, {NAME})),
                   VDict(ServerRecord("B", 1, {NAME})),
                   VDict(ServerRecord("B", 2, {NAME}))>>)


----------------------------------------------------------------------------
(* C5 *)

\* C5: when the batch read of related records omits a requested id n, the
\* expansion does not raise: the activation that read the children returns
\* to its caller, and the caller replaces every reference to n, in a single-
\* and in a multi-relation field alike, by the bare record {"id": n}.
C5_MissingIdsDegrade ==
    [][(pc = "expand" /\ Len(stack) > 1 /\ Top.pos = "loop" /\ Top.todo = {}
            /\ stack' # stack) =>
          /\ pc' = "expand"
          /\ error' = error
          /\ Len(stack') = Len(stack) - 1
          /\ LET parent == stack[Len(stack) - 1]
                 after == stack'[Len(stack')]
                 got == {Top.data[j].d[ID] : j \in DOMAIN Top.data}
             IN \A i \in DOMAIN parent.data :
                   LET v == Get(parent.data[i].d, parent.cur)
                       w == after.data[i].d[parent.cur]
                   IN IF parent.many
                      THEN \A j \in DOMAIN v.l :
                              v.l[j] \notin got => w.l[j] = VDict(ID :> v.l[j])
                      ELSE (Truthy(v) /\ v \notin got) => w = VDict(ID :> v)
      ]_vars

C5_Witness ==
    /\ Finished
    /\ spec = VDict(PARTNER :> VDict(NAME :> EmptyDict) @@ LINES :> VDict(NAME :> EmptyDict))
    /\ \E i \in ReadsAt(<<PARTNER>>) : calls[i].ids = {VInt(2)} /\ calls[i].ret = {}
    /\ \E i \in ReadsAt(<<LINES>>) :
          calls[i].ids = {VInt(1), VInt(2)} /\ calls[i].ret = {VInt(2)}
    /\ OutRows[1].d[PARTNER] = VDict(ID :> VInt(2))
    /\ OutRows[1].d[LINES].l[2] = VDict(ID :> VInt(1))

----------------------------------------------------------------------------
(* C6 *)

\* C6: read_dict called with a single integer id returns the one fetched
\* record unwrapped when the fetch returns one record, and does not raise
\* when the fetch returns no record.
C6_SingleUnwrap ==
    (entry = "read_dict" /\ single) =>
        /\ pc = "done" => (IsDict(result) /\ result = OutRows[1]
                               /\ result.d[ID] = input[1].d[ID])
        /\ pc = "raised" => error # "IndexError"

----------------------------------------------------------------------------
(* C7 *)

\* C7: read_group_dict called with an empty groupby, the empty list or the
\* empty mapping, fails with ValueError before any remote call is issued.
C7_EmptyGroupby ==
    (entry = "read_group_dict" /\ ops[1].a2 \in {VList(<<>>), EmptyDict}) =>
        (pc = "raised" /\ error = "ValueError" /\ calls = <<>>)

C7_Witness ==
    /\ entry = "read_group_dict"
    /\ ops = <<Op("read_group_dict", "A", VFalse, EmptyDict)>>
    /\ pc = "raised"
    /\ error = "ValueError"
    /\ calls = <<>>

----------------------------------------------------------------------------
(* C8 *)

\* a canonical field spec: a mapping whose values are canonical field specs
RECURSIVE Canon(_)
Canon(t) == IsDict(t) /\ \A f \in DOMAIN t.d : Canon(t.d[f])

\* C8: the normalizer applied to a nested mapping returns a canonical field
\* spec, every value at every depth being a mapping, and returns a mapping
\* that is already canonical unchanged.
C8_NormalizedCanonical ==
    (entry = "prepare" /\ pc = "done" /\ IsDict(ops[1].a2)) =>
        /\ Canon(result)
        /\ Canon(ops[1].a2) => result = ops[1].a2

----------------------------------------------------------------------------
(* C9 *)

\* the cache of a handle holds the extended attribute set
HasName(cache) == Truthy(cache) /\ Truthy(Get(cache.d[ID].d, <<"name">>))

\* the call made by the step, when the step is a call
NewOp == ops'[Len(ops')]
IsFieldsCall(op) == op.op = "fields" \/ (op.op = "get_model" /\ op.a1 = VTrue)
IsExtended(op) == op.op = "fields" /\ op.a1 = VTrue
Fetches == Len(calls') > Len(calls)

\* the earlier calls of fields() on the handle of model m
FieldsCallsOn(m) == {i \in DOMAIN ops : ops[i].model = m /\ IsFieldsCall(ops[i])}

\* C9 as stated: a fields_get fetch is issued only by the first call of
\* fields on a handle and by an extended call made while the cache lacks the
\* extended attribute.
C9_FetchOnlyFirst ==
    [][(Len(ops') > Len(ops) /\ IsFieldsCall(NewOp) /\ Fetches) =>
          \/ FieldsCallsOn(NewOp.model) = {}
          \/ IsExtended(NewOp) /\ ~HasName(field_info[NewOp.model])
      ]_vars

\* C9 as amended: a fields_get fetch is issued exactly by a call made while
\* the cache of the handle is empty (the first call, or a call after the
\* fetches before it all failed) and by an extended call made while the cache
\* lacks the extended attribute; every other call returns the cached mapping
\* and leaves the cache alone, and a cache that holds the extended attribute
\* set is never replaced.
C9_FetchWhenNeeded ==
    [][(Len(ops') > Len(ops) /\ IsFieldsCall(NewOp)) =>
          LET m == NewOp.model
              cache == field_info[m]
          IN /\ Fetches <=> (~Truthy(cache) \/ (IsExtended(NewOp) /\ ~HasName(cache)))
             /\ ~Fetches => field_info' = field_info
             /\ (~Fetches /\ NewOp.op = "fields") => (result' = cache /\ error' = "none")
             /\ HasName(cache) => field_info'[m] = cache
      ]_vars

C9_Witness ==
    /\ SubSeq(ops, 2, Len(ops)) = <<Op("fields", "A", VFalse, VFalse),
                                    Op("fields", "A", VTrue, VFalse),
                                    Op("fields", "A", VFalse, VFalse)>>
    /\ calls = <<FieldsCallEntry("A", FALSE), FieldsCallEntry("A", TRUE)>>
    /\ HasName(field_info["A"])
    /\ result = field_info["A"]
    /\ error = "none"

----------------------------------------------------------------------------
(* C10 *)

\* the number of nodes of a field spec
RECURSIVE Size(_)
RECURSIVE SizeOver(_, _)
Size(t) == IF IsDict(t) THEN SizeOver(t, DOMAIN t.d) ELSE 0
SizeOver(t, keys) ==
    IF keys = {} THEN 0
    ELSE LET f == CHOOSE x \in keys : TRUE
         IN 1 + Size(t.d[f]) + SizeOver(t, keys \ {f})

\* the number of nodes of a field spec that have a sub-field other than id
RECURSIVE Expandable(_)
RECURSIVE ExpandableOver(_, _)
Expandable(t) == IF IsDict(t) THEN ExpandableOver(t, DOMAIN t.d) ELSE 0
ExpandableOver(t, keys) ==
    IF keys = {} THEN 0
    ELSE LET f == CHOOSE x \in keys : TRUE
         IN (IF KeySet(t.d[f]) \ {ID} # {} THEN 1 ELSE 0)
            + Expandable(t.d[f]) + ExpandableOver(t, keys \ {f})

\* the sub-tree of a field spec at a path
RECURSIVE SubTree(_, _)
SubTree(t, path) == IF path = <<>> THEN t ELSE SubTree(t.d[Head(path)], Tail(path))

\* what is left to do in one activation: the fields still to visit with
\* their sub-trees, and the steps of entering and leaving
FrameMeasure(fr) ==
    IF fr.pos = "enter"
    THEN 2 + 3 * (IF Truthy(fr.fields) THEN Size(fr.fields)
                  ELSE Cardinality(FieldNames))
    ELSE 1 + 3 * SizeOver(fr.fields, fr.todo)

RECURSIVE SumFrames(_)
SumFrames(s) == IF s = <<>> THEN 0 ELSE FrameMeasure(Head(s)) + SumFrames(Tail(s))

\* a natural number that every step of the expansion decreases
Measure == IF pc = "expand" THEN SumFrames(stack) ELSE 0

\* every recursive call works on the sub-tree of its caller's spec at the
\* field being expanded, a strict sub-tree of the spec of the entry point
StrictSubTrees ==
    \A i \in 2..Len(stack) :
        /\ stack[i].fields = stack[i - 1].fields.d[stack[i - 1].cur]
        /\ stack[i].fields = SubTree(spec, [j \in 1..(i - 1) |-> stack[j].cur])
        /\ Size(stack[i].fields) < Size(stack[i - 1].fields)

\* one batch read at most for each node of the spec that has a sub-field
\* other than id
ReadsBounded ==
    /\ Cardinality(BatchReads) <= Expandable(spec)
    /\ \A i, j \in BatchReads : calls[i].path = calls[j].path => i = j
    /\ \A i \in BatchReads : KeySet(SubTree(spec, calls[i].path)) \ {ID} # {}

\* C10: the expansion terminates, a natural-number measure decreasing with
\* every step of it, whatever the relations between the models (partner_id
\* links A and B in a cycle, line_ids of B references B); each recursive call
\* works on a strict sub-tree of the spec; and the batch reads issued are at
\* most as many as the nodes of the spec that have a sub-field other than id.
C10_ExpandTerminates ==
    [][pc = "expand" =>
          /\ Measure' < Measure
          /\ Measure' >= 0
          /\ StrictSubTrees'
          /\ ReadsBounded'
      ]_vars

C10_Witness ==
    /\ Finished
    /\ spec = VDict(PARTNER :> VDict(PARTNER :> VDict(NAME :> EmptyDict)))
    /\ \E i \in ReadsAt(<<PARTNER>>) : calls[i].model = "B"
    /\ \E j \in ReadsAt(<<PARTNER, PARTNER>>) : calls[j].model = "A"
    /\ Cardinality(BatchReads) = Expandable(spec)

----------------------------------------------------------------------------
(* C11 *)

\* the well-formed clauses [raw_field, op, v] of a domain, by position
Matching(domain, raw_field, op) ==
    {i \in DOMAIN domain :
        /\ IsList(domain[i])
        /\ Len(domain[i].l) = 3
        /\ domain[i].l[1] = VStr(raw_field)
        /\ domain[i].l[2] = VStr(<<op>>)}

FirstOf(S) == CHOOSE i \in S : \A j \in S : i <= j

\* C11: scanning a row's __domain in order, from is the value of the first
\* 3-element clause [raw_field, ">=", v] and to the value of the first
\* 3-element clause [raw_field, "<", v]; a bound without such a clause stays
\* unset, and later clauses of a bound, clauses on other fields, operator
\* tokens and malformed elements change nothing.
C11_WindowFromDomain ==
    (entry = "window" /\ pc = "done") =>
        LET domain == ops[1].a1.l
            raw_field == ops[1].a2.s
            from == Matching(domain, raw_field, ">=")
            to == Matching(domain, raw_field, "<")
        IN /\ IsDict(result)
           /\ DOMAIN result.d = (IF from # {} THEN {FROM} ELSE {})
                                   \cup (IF to # {} THEN {TO} ELSE {})
           /\ from # {} => result.d[FROM] = domain[FirstOf(from)].l[3]
           /\ to # {} => result.d[TO] = domain[FirstOf(to)].l[3]

C11_Witness ==
    /\ entry = "window"
    /\ pc = "done"
    /\ ops[1].a2 = VStr(DATE)
    /\ ops[1].a1 = VList(<<Clause(DATE, ">=", "2024-01-01"),
                           Clause(DATE, ">=", "2023-01-01"),
                           Clause(DATE, "<", "2024-02-01")>>)
    /\ result = VDict(FROM :> VStr(<<"2024-01-01">>) @@ TO :> VStr(<<"2024-02-01">>))

----------------------------------------------------------------------------
(* C12 *)

HourField == DATE \o <<":hour">>

\* the from value of the window of a group row for the field date, false
\* when no window or no from value is available: from version 15 the entry of
\* __range, before it the first >= clause of __domain
FromOf(row, major) ==
    IF major >= 15
    THEN LET w == Get(row.d[RANGE].d, DATE)
         IN IF IsDict(w) THEN Get(w.d, FROM) ELSE VFalse
    ELSE LET dom == row.d[DOMAINKEY].l
             hits == Matching(dom, DATE, ">=")
         IN IF hits # {} THEN dom[FirstOf(hits)].l[3] ELSE VFalse

HourExpected(row, major) ==
    LET v == row.d[HourField]
    IN IF Truthy(v) /\ Truthy(FromOf(row, major)) THEN FromOf(row, major) ELSE v

\* C12: read_group_dict grouped by date:hour alone, on every server version:
\* a non-empty bucket value is replaced by the from value of the row's window
\* when one is available, and where none is available (no entry for date in
\* __range, no matching >= clause in __domain) the value is left as it is;
\* canonicalizing raises no error, only a failed remote call does.
C12_HourWindow ==
    \A i \in DOMAIN calls :
        (/\ calls[i].method = "read_group"
         /\ calls[i].names = {HourField}
         /\ IsList(calls[i].ret)
         /\ version_cache # 0) =>
            /\ pc = "raised" => error = "OdooServerError"
            /\ pc \in {"expand", "done"} =>
                  /\ Len(input) = Len(calls[i].ret.l)
                  /\ \A j \in DOMAIN input :
                        input[j].d[HourField] =
                            HourExpected(calls[i].ret.l[j], version_cache)

----------------------------------------------------------------------------
(* C13 *)

\* the calls that write the session: authenticate, and the database
\* assignments that were not refused
SessionOps ==
    {i \in DOMAIN ops :
        \/ ops[i].op = "authenticate"
        \/ ops[i].op = "database" /\ ops[i].a2 # VStr(<<"refused">>)}

LastSessionOp == ops[CHOOSE i \in SessionOps : \A j \in SessionOps : j <= i]

\* C13: after any sequence of authenticate calls (accepted, rejected by the
\* server, failing in transport, logout with an empty username) and database
\* assignments on one client, is_connected() is true only if the most recent
\* authenticate call was accepted and no database assignment followed it.
C13_ConnectedOnlyAfterLogin ==
    is_connected =>
        /\ SessionOps # {}
        /\ LastSessionOp.op = "authenticate"
        /\ LastSessionOp.a2 = VStr(<<"accepted">>)

====
